---- MODULE Spec2Model ----
(***************************************************************************)
(* Model of examples/example_global_analysis.py: a two-phase script        *)
(* (STEP 1: in-silico MAVE with BPNet, STEP 2: MAVE-NN surrogate) selected *)
(* by a manual switch.  Every run is a fresh interpreter: the module       *)
(* namespace starts empty, statements execute one source line at a time,   *)
(* an uncaught exception ends the run, and only the file system survives   *)
(* from one run to the next.                                               *)
(***************************************************************************)
EXTENDS Integers, Sequences, FiniteSets, TLC

\* ---------------------------------------------------------------- bounds
MaxRuns   == 3      \* number of times the script is run
MaxSeqLen == 4      \* largest value of the seq_length setting

\* ------------------------------------------------------------- constants
alphabet == <<"A", "C", "G", "T">>

py_dir   == "examples"
save_dir == "examples/outputs_global_analysis"

X_MUT == <<save_dir, "x_mut.npy">>
Y_MUT == <<save_dir, "y_mut.npy">>
LOGO  == <<save_dir, "logo.csv">>
FIG   == <<save_dir, "figure">>

Paths == {py_dir, save_dir} \X {"x_mut.npy", "y_mut.npy", "logo.csv", "figure"}

VARIABLES
    cfg,        \* the editable settings of the script: seq_length, pattern, save
    pc,         \* source line about to execute; 0 when no run is in progress
    switch,     \* the STEP 1 switch of the current run: 1 ('if 1:') or 0 ('if 0:')
    runNo,      \* number of runs started so far
    exc,        \* exception that ended the current run, "none" if none
    tb,         \* line of the statement that raised (traceback), 0 if none
    bound,      \* names bound in the module namespace of the current run
    ns,         \* values of the names whose value matters
    files,      \* file system: path -> [exists, ds, mtime, partial]
    dirExists,  \* whether the directory save_dir exists
    gen         \* number of mave.generate calls made so far

vars == <<cfg, pc, switch, runNo, exc, tb, bound, ns, files, dirExists, gen>>

\* ------------------------------------------------------- pure expressions
Max(a, b) == IF a >= b THEN a ELSE b

\* 'c' * n
Repeat(c, n) == [i \in 1..n |-> c]

\* s[:-k] of Python: -0 is 0, so s[:-0] is s[:0], the empty string
SliceToNeg(s, k) == IF k = 0 THEN <<>> ELSE SubSeq(s, 1, Max(Len(s) - k, 0))

\* line 45: start_pos = int(seq_length//2)
StartPos(seq_length) == seq_length \div 2

\* line 46: seq = 'N'*int(seq_length//2) + pattern + ('N'*int(seq_length//2))[:-len(pattern)]
PadSeq(seq_length, pattern) ==
    Repeat("N", seq_length \div 2) \o pattern
        \o SliceToNeg(Repeat("N", seq_length \div 2), Len(pattern))

\* line 47: mut_window = [start_pos, start_pos+len(pattern)]
PatternWindow(start_pos, pattern) == <<start_pos, start_pos + Len(pattern)>>

\* line 59: utils.seq2oh gives one row per character, one column per symbol
seq2oh(seq, alph) ==
    [i \in 1..Len(seq) |-> [j \in 1..Len(alph) |-> IF seq[i] = alph[j] THEN 1 ELSE 0]]

\* line 71: seq_length = len(x)
Step1SeqLength(x) == Len(x)

\* line 72: mut_window = [0, seq_length]
Step1Window(seq_length) == <<0, seq_length>>

\* line 74: the arguments InSilicoMAVE is constructed with
InSilicoMAVE(seq_length, mut_window) ==
    [built |-> TRUE, seq_length |-> seq_length, mut_window |-> mut_window]

NoMAVE == [built |-> FALSE, seq_length |-> 0, mut_window |-> <<0, 0>>]

\* a dataset: the generate call that produced it and the geometry of its MAVE
NoDS == [gen |-> 0, seq_length |-> 0, mut_window |-> <<0, 0>>]

DS(g, mave) == [gen |-> g, seq_length |-> mave.seq_length, mut_window |-> mave.mut_window]

\* line 76: x_mut, y_mut = mave.generate(x, num_sim=num_sim); g calls were made before
generate(mave, g) == [x_mut |-> DS(g + 1, mave), y_mut |-> DS(g + 1, mave)]

\* ------------------------------------------------------------ the script
Step1Lines == {51, 52, 53, 54, 59, 62, 65, 68, 71, 72, 73, 74, 76, 79, 80, 81}
Step2Lines == {85, 86, 87, 90, 93, 94, 97, 105, 110, 113, 115, 116, 117, 120}
TopLines   == {17, 18, 24, 25, 31, 32, 33, 34, 35, 38, 39, 40, 43, 45, 46, 47, 50}
Lines      == TopLines \cup Step1Lines \cup Step2Lines

\* variant of line 34 without the existence test: os.makedirs on every run
NeedsMkdir_always(exists) == TRUE

\* line 34: if not os.path.exists(save_dir)
NeedsMkdir(exists) == ~exists

\* the statement executed after `line` when it does not raise; 0 ends the run
Succ(line) ==
    CASE line = 17 -> 18   [] line = 18 -> 24   [] line = 24 -> 25
      [] line = 25 -> 31   [] line = 31 -> 32   [] line = 32 -> 33
      [] line = 33 -> 34
      [] line = 34 -> IF NeedsMkdir(dirExists) THEN 35 ELSE 38
      [] line = 35 -> 38   [] line = 38 -> 39   [] line = 39 -> 40
      [] line = 40 -> 43   [] line = 43 -> 45   [] line = 45 -> 46
      [] line = 46 -> 47   [] line = 47 -> 50
      [] line = 50 -> IF switch = 1 THEN 51 ELSE 85
      [] line = 51 -> 52   [] line = 52 -> 53   [] line = 53 -> 54
      [] line = 54 -> 59   [] line = 59 -> 62   [] line = 62 -> 65
      [] line = 65 -> 68   [] line = 68 -> 71   [] line = 71 -> 72
      [] line = 72 -> 73   [] line = 73 -> 74   [] line = 74 -> 76
      [] line = 76 -> 79   [] line = 79 -> 80   [] line = 80 -> 81
      [] line = 81 -> 0
      [] line = 85 -> 86   [] line = 86 -> 87   [] line = 87 -> 90
      [] line = 90 -> 93   [] line = 93 -> 94   [] line = 94 -> 97
      [] line = 97 -> 105  [] line = 105 -> 110 [] line = 110 -> 113
      [] line = 113 -> 115 [] line = 115 -> 116 [] line = 116 -> 117
      [] line = 117 -> 120 [] line = 120 -> 0

\* the names a statement reads (builtins and __file__ are always bound)
Uses(line) ==
    CASE line = 18 -> {"sys"}
      [] line = 31 -> {"os"}
      [] line = 32 -> {"os", "py_dir"}
      [] line = 33 -> {"os", "py_dir"}
      [] line = 34 -> {"os", "save_dir"}
      [] line = 35 -> {"os", "save_dir"}
      [] line = 45 -> {"seq_length"}
      [] line = 46 -> {"seq_length", "pattern"}
      [] line = 47 -> {"start_pos", "pattern"}
      [] line = 53 -> {"sys", "os", "parent_dir"}
      [] line = 59 -> {"utils", "seq", "alphabet"}
      [] line = 62 -> {"kipoi"}
      [] line = 65 -> {"predictor", "model", "task_idx"}
      [] line = 68 -> {"mutagenizer"}
      [] line = 71 -> {"x"}
      [] line = 72 -> {"seq_length"}
      [] line = 74 -> {"mave", "mut_generator", "kipoi_predictor", "seq_length", "mut_window"}
      [] line = 76 -> {"mave", "x", "num_sim"}
      [] line = 80 -> {"np", "os", "save_dir", "x_mut"}
      [] line = 81 -> {"np", "os", "save_dir", "y_mut"}
      [] line = 93 -> {"np", "os", "save_dir"}
      [] line = 94 -> {"np", "os", "save_dir"}
      [] line = 97 -> {"squid", "x_mut", "y_mut", "gpmap", "alphabet", "gpu"}
      [] line = 105 -> {"surrogate_model", "x_mut", "y_mut"}
      [] line = 110 -> {"surrogate_model"}
      [] line = 113 -> {"surrogate_model", "mut_window", "seq_length"}
      [] line = 115 -> {"squid", "logo", "alphabet"}
      [] line = 116 -> {"logo_df"}
      [] line = 117 -> {"logo_df", "os", "save_dir"}
      [] line = 120 -> {"squid", "logo", "mut_window", "alphabet", "save_dir"}
      [] OTHER -> {}

\* the names a statement binds
Binds(line) ==
    CASE line = 17 -> {"os", "sys"}
      [] line = 24 -> {"gpu"}
      [] line = 25 -> {"save"}
      [] line = 31 -> {"py_dir"}
      [] line = 32 -> {"parent_dir"}
      [] line = 33 -> {"save_dir"}
      [] line = 38 -> {"task_idx"}
      [] line = 39 -> {"alphabet"}
      [] line = 40 -> {"seq_length"}
      [] line = 43 -> {"pattern"}
      [] line = 45 -> {"start_pos"}
      [] line = 46 -> {"seq"}
      [] line = 47 -> {"mut_window"}
      [] line = 51 -> {"kipoi"}
      [] line = 52 -> {"np"}
      [] line = 54 -> {"utils", "predictor", "mutagenizer", "mave"}
      [] line = 59 -> {"x"}
      [] line = 62 -> {"model"}
      [] line = 65 -> {"kipoi_predictor"}
      [] line = 68 -> {"mut_generator"}
      [] line = 71 -> {"seq_length"}
      [] line = 72 -> {"mut_window"}
      [] line = 73 -> {"num_sim"}
      [] line = 74 -> {"mave"}
      [] line = 76 -> {"x_mut", "y_mut"}
      [] line = 85 -> {"mavenn"}
      [] line = 86 -> {"squid"}
      [] line = 87 -> {"plt"}
      [] line = 90 -> {"gpmap"}
      [] line = 93 -> {"x_mut"}
      [] line = 94 -> {"y_mut"}
      [] line = 97 -> {"surrogate_model"}
      [] line = 105 -> {"surrogate", "mave_df"}
      [] line = 110 -> {"params"}
      [] line = 113 -> {"logo"}
      [] line = 115 -> {"logo_df"}
      [] line = 120 -> {"fig"}
      [] OTHER -> {}

\* the statements that call into an external library and can raise there
Fallible ==
    {35, 51, 52, 54, 59, 62, 65, 68, 74, 76, 80, 81,
     85, 86, 87, 93, 94, 97, 105, 110, 113, 115, 117, 120}

\* variant of lines 80-81 in which both np.save calls name x_mut.npy
Writes_samefile(line) ==
    CASE line = 80  -> {X_MUT}
      [] line = 81  -> {X_MUT}
      [] line = 117 -> {LOGO}
      [] line = 120 -> {FIG}
      [] OTHER -> {}

\* the file a statement writes: os.path.join(save_dir, <name>) in every case
Writes(line) ==
    CASE line = 80  -> {X_MUT}
      [] line = 81  -> {Y_MUT}
      [] line = 117 -> {LOGO}
      [] line = 120 -> {FIG}
      [] OTHER -> {}

\* the file a statement reads
Reads(line) ==
    CASE line = 93 -> {X_MUT}
      [] line = 94 -> {Y_MUT}
      [] OTHER -> {}

\* variant in which an exception is swallowed and the script carries on
AfterRaise_swallow(line) == Succ(line)

\* the pc after an uncaught exception: nothing catches it, the run is over
AfterRaise(line) == 0

\* ------------------------------------------------------------ file system
NoFile == [exists |-> FALSE, ds |-> NoDS, mtime |-> 0, partial |-> FALSE]

DirOf(p) == p[1]

DirPresent(d) == IF d = save_dir THEN dirExists ELSE TRUE

\* the value a writing statement puts into its file
Payload(line) ==
    CASE line = 80 -> ns.x_mut
      [] line = 81 -> ns.y_mut
      [] OTHER -> ns.x_mut      \* logo.csv and the figure derive from the loaded dataset

\* calls whose failure is certain in the current state
MustFail(line) ==
    \/ line = 35 /\ dirExists                                    \* FileExistsError
    \/ \E p \in Writes(line) : ~DirPresent(DirOf(p))             \* FileNotFoundError
    \/ \E p \in Reads(line) : ~files[p].exists \/ files[p].partial

EmptyNS ==
    [seq_length |-> 0, start_pos |-> 0, seq |-> <<>>, mut_window |-> <<0, 0>>,
     x |-> <<>>, mave |-> NoMAVE, x_mut |-> NoDS, y_mut |-> NoDS]

\* the effect of a successful statement on the values of the namespace
Assign(line) ==
    CASE line = 40 -> [ns EXCEPT !.seq_length = cfg.seq_length]
      [] line = 45 -> [ns EXCEPT !.start_pos = StartPos(ns.seq_length)]
      [] line = 46 -> [ns EXCEPT !.seq = PadSeq(ns.seq_length, cfg.pattern)]
      [] line = 47 -> [ns EXCEPT !.mut_window = PatternWindow(ns.start_pos, cfg.pattern)]
      [] line = 59 -> [ns EXCEPT !.x = seq2oh(ns.seq, alphabet)]
      [] line = 71 -> [ns EXCEPT !.seq_length = Step1SeqLength(ns.x)]
      [] line = 72 -> [ns EXCEPT !.mut_window = Step1Window(ns.seq_length)]
      [] line = 74 -> [ns EXCEPT !.mave = InSilicoMAVE(ns.seq_length, ns.mut_window)]
      [] line = 76 -> [ns EXCEPT !.x_mut = generate(ns.mave, gen).x_mut,
                                 !.y_mut = generate(ns.mave, gen).y_mut]
      [] line = 93 -> [ns EXCEPT !.x_mut = files[X_MUT].ds]
      [] line = 94 -> [ns EXCEPT !.y_mut = files[Y_MUT].ds]
      [] OTHER -> ns

\* ---------------------------------------------------------------- state
Patterns(n) == UNION {[1..k -> {alphabet[j] : j \in 1..Len(alphabet)}] : k \in 0..n}

Settings ==
    {[seq_length |-> L, pattern |-> p, save |-> s] :
        L \in 1..MaxSeqLen, p \in Patterns(MaxSeqLen \div 2), s \in BOOLEAN}

Init ==
    /\ cfg \in {c \in Settings : Len(c.pattern) <= c.seq_length \div 2}
    /\ pc = 0
    /\ switch = 1
    /\ runNo = 0
    /\ exc = "none"
    /\ tb = 0
    /\ bound = {}
    /\ ns = EmptyNS
    /\ files = [p \in Paths |-> NoFile]
    /\ dirExists \in BOOLEAN
    /\ gen = 0

\* the script is started, with the STEP 1 switch edited to sw
Run(sw) ==
    /\ pc = 0
    /\ runNo < MaxRuns
    /\ pc' = 17
    /\ switch' = sw
    /\ runNo' = runNo + 1
    /\ exc' = "none"
    /\ tb' = 0
    /\ bound' = {}
    /\ ns' = EmptyNS
    /\ UNCHANGED <<cfg, files, dirExists, gen>>

\* the statement at pc executes without raising
Exec ==
    /\ pc # 0
    /\ Uses(pc) \subseteq bound
    /\ ~MustFail(pc)
    /\ bound' = bound \cup Binds(pc)
    /\ ns' = Assign(pc)
    /\ files' = [p \in Paths |->
                    IF p \in Writes(pc)
                    THEN [exists |-> TRUE, ds |-> Payload(pc), mtime |-> runNo,
                          partial |-> FALSE]
                    ELSE files[p]]
    /\ dirExists' = (dirExists \/ pc = 35)
    /\ gen' = IF pc = 76 THEN gen + 1 ELSE gen
    /\ pc' = Succ(pc)
    /\ UNCHANGED <<cfg, switch, runNo, exc, tb>>

\* the statement at pc reads a name that is not bound
RaiseNameError ==
    /\ pc # 0
    /\ ~(Uses(pc) \subseteq bound)
    /\ exc' = "NameError"
    /\ tb' = pc
    /\ pc' = AfterRaise(pc)
    /\ UNCHANGED <<cfg, switch, runNo, bound, ns, files, dirExists, gen>>

\* the library call at pc raises; a write that fails leaves its file as it
\* was or truncated
RaiseLib ==
    /\ pc \in Fallible
    /\ Uses(pc) \subseteq bound
    /\ exc' = IF pc = 35 /\ dirExists THEN "FileExistsError" ELSE "LibError"
    /\ tb' = pc
    /\ pc' = AfterRaise(pc)
    /\ \/ files' = files
       \/ \E p \in Writes(pc) :
            /\ DirPresent(DirOf(p))
            /\ files' = [files EXCEPT ![p] = [exists |-> TRUE, ds |-> NoDS,
                                              mtime |-> runNo, partial |-> TRUE]]
    /\ UNCHANGED <<cfg, switch, runNo, bound, ns, dirExists, gen>>

Next ==
    \/ \E sw \in {0, 1} : Run(sw)
    \/ Exec
    \/ RaiseNameError
    \/ RaiseLib

Spec == Init /\ [][Next]_vars

TypeOK ==
    /\ pc \in Lines \cup {0}
    /\ switch \in {0, 1}
    /\ runNo \in 0..MaxRuns
    /\ exc \in {"none", "NameError", "LibError", "FileExistsError"}
    /\ gen \in 0..MaxRuns

\* ------------------------------------------------------------ properties
RunOver == pc = 0 /\ runNo > 0

\* the file is complete on disk
Saved(p) == files[p].exists /\ ~files[p].partial

\* the file was created or modified by the current run
Touched(p) == files[p].exists /\ files[p].mtime = runNo

\* the file was written completely by the current run
Written(p) == Saved(p) /\ files[p].mtime = runNo

\* C1: with x_mut.npy and y_mut.npy saved, a run with the switch off in which
\* no library call fails runs STEP 2 to completion and writes logo.csv,
\* raising no error of its own.
C1_Step2Completes ==
    (RunOver /\ switch = 0 /\ Saved(X_MUT) /\ Saved(Y_MUT) /\ exc # "LibError")
        => (exc = "none" /\ Written(LOGO))

\* C2: a run in which no library call fails performs exactly one phase: with
\* the switch on it writes x_mut.npy and y_mut.npy and leaves logo.csv and the
\* figure alone, with the switch off it writes logo.csv and the figure and
\* leaves x_mut.npy and y_mut.npy alone.
C2_ExactlyOnePhase ==
    (RunOver /\ exc # "LibError") =>
        IF switch = 1
        THEN /\ Written(X_MUT) /\ Written(Y_MUT)
             /\ ~Touched(LOGO) /\ ~Touched(FIG)
        ELSE /\ Written(LOGO) /\ Written(FIG)
             /\ ~Touched(X_MUT) /\ ~Touched(Y_MUT)

\* C3: save_dir exists once the directory set-up (lines 33-35) is passed and
\* whenever a file exists; every file on disk lies under save_dir; and the
\* directory set-up never fails because the directory is already there.
C3_SaveDir ==
    /\ \A p \in Paths : files[p].exists => (DirOf(p) = save_dir /\ dirExists)
    /\ (pc >= 38 => dirExists)
    /\ exc # "FileExistsError"

\* a second run, started with the directory already present, has written
\* x_mut.npy
C3_Witness == runNo >= 2 /\ switch = 1 /\ Written(X_MUT) /\ dirExists

\* C4: an exception ends the run at the statement that raised; a failure at
\* lines 59-76 of STEP 1 leaves x_mut.npy and y_mut.npy untouched by the run,
\* and a failure at lines 93-113 of STEP 2 leaves logo.csv untouched.
C4_FailureEndsRun ==
    /\ (exc # "none" => (pc = 0 /\ tb # 0))
    /\ (tb \in {59, 62, 65, 68, 74, 76} => (~Touched(X_MUT) /\ ~Touched(Y_MUT)))
    /\ (tb \in {93, 94, 97, 105, 110, 113} => ~Touched(LOGO))

\* mave.generate failed in a run that found both arrays on disk
C4_Witness ==
    /\ exc = "LibError" /\ tb = 76 /\ runNo >= 2
    /\ Saved(X_MUT) /\ Saved(Y_MUT)

\* the settings for which line 46 pads the pattern to the full length
FullLength == PadSeq(cfg.seq_length, cfg.pattern) # <<>>
                 /\ Len(PadSeq(cfg.seq_length, cfg.pattern)) = cfg.seq_length

\* C5: the mut_window InSilicoMAVE is constructed with is the interval of the
\* pattern, [start_pos, start_pos+len(pattern)] (stated for the settings with
\* a full-length seq).
C5_WindowIsPattern ==
    (ns.mave.built /\ FullLength) =>
        ns.mave.mut_window = PatternWindow(StartPos(cfg.seq_length), cfg.pattern)

\* C6: seq has seq_length characters, the pattern at [start_pos,
\* start_pos+len(pattern)) and 'N' everywhere else.
C6_PaddedSeq ==
    "seq" \in bound =>
        LET L  == cfg.seq_length
            sp == L \div 2
            p  == cfg.pattern
        IN  /\ Len(ns.seq) = L
            /\ \A i \in 1..L :
                 ns.seq[i] = IF i - 1 >= sp /\ i - 1 < sp + Len(p)
                             THEN p[i - sp] ELSE "N"

\* C7: whenever x_mut.npy and y_mut.npy both exist they come from the same
\* mave.generate call.
C7_AlwaysMatched ==
    (files[X_MUT].exists /\ files[Y_MUT].exists)
        => files[X_MUT].ds.gen = files[Y_MUT].ds.gen

\* C7 (amended): a STEP 1 run that ends without error has written both arrays
\* completely, and two arrays last written completely by the same run come
\* from the same mave.generate call.
C7_MatchedAfterStep1 ==
    /\ (RunOver /\ switch = 1 /\ exc = "none")
          => (Written(X_MUT) /\ Written(Y_MUT) /\ files[X_MUT].ds.gen = gen)
    /\ (Saved(X_MUT) /\ Saved(Y_MUT) /\ files[X_MUT].mtime = files[Y_MUT].mtime)
          => files[X_MUT].ds = files[Y_MUT].ds

\* a second complete STEP 1 run has replaced both arrays
C7_Witness ==
    /\ RunOver /\ switch = 1 /\ exc = "none" /\ gen >= 2
    /\ Written(X_MUT) /\ Written(Y_MUT)

\* C8: throughout STEP 2 the mut_window and seq_length it hands to get_logo
\* and plot_additive_logo equal those the dataset on disk was generated with
\* (stated for the settings with a full-length seq).
C8_SameGeometry ==
    (switch = 0 /\ pc \in Step2Lines /\ Saved(X_MUT) /\ Saved(Y_MUT) /\ FullLength) =>
        /\ ns.mut_window = files[X_MUT].ds.mut_window
        /\ ns.seq_length = files[X_MUT].ds.seq_length

\* C9: x_mut.npy and y_mut.npy are written when save is True and are not
\* written when save is False.
C9_SaveGoverns ==
    /\ (~cfg.save => (~files[X_MUT].exists /\ ~files[Y_MUT].exists))
    /\ ((cfg.save /\ RunOver /\ switch = 1 /\ exc = "none")
          => (Written(X_MUT) /\ Written(Y_MUT)))
====
